---- MODULE Spec2Model ----
(***************************************************************************)
(* Multi-chain DEX trade aggregation and signal scoring                    *)
(* (agents/crypto_trader_bot: config.py, bitquery_service.py,              *)
(* dex_agent.py).                                                          *)
(*                                                                         *)
(* Conventions                                                             *)
(*  - A Python str that the code inspects character by character           *)
(*    (lower, strip) is a sequence of one-character strings.               *)
(*  - A Decimal is an integer count of tenths (100.5 is 1005); every sum   *)
(*    and comparison of the code is then exact integer arithmetic.         *)
(*  - A percentage change is the exact fraction num/den with den > 0.      *)
(*  - A raised exception is a record [kind |-> "raise", type, msg].         *)
(***************************************************************************)
EXTENDS Integers, Sequences, FiniteSets, TLC

VARIABLES
    pc,          \* position of the call in flight: "idle", "awaitPost", "done"
    op,          \* the operation invoked
    chain,       \* its chain argument (a string as typed by the caller)
    time_window, \* the minutes to look back (get_chain_activity's time_window)
    now,         \* the clock value get_chain_activity read
    requests,    \* the outbound requests this call issued to the data provider
    response,    \* what the data provider answered (kind, records)
    trades,      \* analyze_market's local list of trade records
    snapshot,    \* the analysis analyze_market built
    scored,      \* suggest_trades' per-symbol locals (symbol, change, confidence)
    result,      \* what the call returned or raised
    service,     \* the BitQueryService the agent holds: the state calls share
    calls,       \* the locals of each of the calls running on one event loop
    supported_chains,  \* config.py's module-level dict SUPPORTED_CHAINS
    chain_aliases      \* config.py's module-level dict CHAIN_ALIASES

\* the module-level tables of config.py
tables == <<supported_chains, chain_aliases>>

vars == <<pc, op, chain, time_window, now, requests, response, trades, snapshot,
          scored, result, service, calls, supported_chains, chain_aliases>>

(***************************************************************************)
(* Strings                                                                 *)
(***************************************************************************)
UpperLetters ==
    <<"A","B","C","D","E","F","G","H","I","J","K","L","M",
      "N","O","P","Q","R","S","T","U","V","W","X","Y","Z">>

LowerLetters ==
    <<"a","b","c","d","e","f","g","h","i","j","k","l","m",
      "n","o","p","q","r","s","t","u","v","w","x","y","z">>

\* the characters str.strip() removes
Whitespace == {" ", "\t", "\n"}

LowerChar(c) ==
    IF \E i \in 1..26 : UpperLetters[i] = c
    THEN LowerLetters[CHOOSE i \in 1..26 : UpperLetters[i] = c]
    ELSE c

UpperChar(c) ==
    IF \E i \in 1..26 : LowerLetters[i] = c
    THEN UpperLetters[CHOOSE i \in 1..26 : LowerLetters[i] = c]
    ELSE c

\* str.lower()
StrLower(s) == [i \in 1..Len(s) |-> LowerChar(s[i])]

\* str.upper() (used only to build inputs)
StrUpper(s) == [i \in 1..Len(s) |-> UpperChar(s[i])]

\* str.capitalize(): first character upper-cased, the rest lower-cased
StrCapitalize(s) ==
    [i \in 1..Len(s) |-> IF i = 1 THEN UpperChar(s[i]) ELSE LowerChar(s[i])]

\* str.strip(): drop leading and trailing whitespace
StrStrip(s) ==
    LET keep == {i \in 1..Len(s) : s[i] \notin Whitespace}
    IN  IF keep = {} THEN <<>>
        ELSE LET lo == CHOOSE i \in keep : \A j \in keep : i <= j
                 hi == CHOOSE i \in keep : \A j \in keep : j <= i
             IN  SubSeq(s, lo, hi)

(***************************************************************************)
(* config.py: the chain registry                                           *)
(***************************************************************************)
Solana   == <<"s","o","l","a","n","a">>
Eth      == <<"e","t","h">>
Tron     == <<"t","r","o","n">>
Ton      == <<"t","o","n">>
Base     == <<"b","a","s","e">>
Matic    == <<"m","a","t","i","c">>
Bsc      == <<"b","s","c">>
Opbnb    == <<"o","p","b","n","b">>
Optimism == <<"o","p","t","i","m","i","s","m">>
Arbitrum == <<"a","r","b","i","t","r","u","m">>

\* ChainConfig(name, url_path, native_token, explorer)
ChainConfig(name, url_path, native_token, explorer) ==
    [name |-> name, url_path |-> url_path, native_token |-> native_token,
     explorer |-> explorer]

\* the dict display bound to SUPPORTED_CHAINS at module load: chain id ->
\* ChainConfig
SUPPORTED_CHAINS ==
    (Solana   :> ChainConfig("Solana", "solana", "SOL", "https://solscan.io"))
 @@ (Eth      :> ChainConfig("Ethereum", "eth", "ETH", "https://etherscan.io"))
 @@ (Tron     :> ChainConfig("Tron", "tron", "TRX", "https://tronscan.org"))
 @@ (Ton      :> ChainConfig("TON", "ton", "TON", "https://tonscan.org"))
 @@ (Base     :> ChainConfig("Base", "base", "ETH", "https://basescan.org"))
 @@ (Matic    :> ChainConfig("Polygon", "matic", "MATIC", "https://polygonscan.com"))
 @@ (Bsc      :> ChainConfig("BSC", "bsc", "BNB", "https://bscscan.com"))
 @@ (Opbnb    :> ChainConfig("opBNB", "opbnb", "BNB", "https://opbnbscan.com"))
 @@ (Optimism :> ChainConfig("Optimism", "optimism", "ETH",
                             "https://optimistic.etherscan.io"))
 @@ (Arbitrum :> ChainConfig("Arbitrum", "arbitrum", "ETH", "https://arbiscan.io"))

AliasEthereum == <<"e","t","h","e","r","e","u","m">>
AliasEther    == <<"e","t","h","e","r">>
AliasBinance  == <<"b","i","n","a","n","c","e">>
AliasBinanceSmartChain ==
    <<"b","i","n","a","n","c","e"," ","s","m","a","r","t"," ","c","h","a","i","n">>
AliasPolygon  == <<"p","o","l","y","g","o","n">>
AliasSol      == <<"s","o","l">>
AliasOpt      == <<"o","p","t">>
AliasArb      == <<"a","r","b">>

\* the dict display bound to CHAIN_ALIASES at module load: name variation ->
\* chain id
CHAIN_ALIASES ==
    (AliasEthereum :> Eth)
 @@ (AliasEther :> Eth)
 @@ (AliasBinance :> Bsc)
 @@ (AliasBinanceSmartChain :> Bsc)
 @@ (AliasPolygon :> Matic)
 @@ (AliasSol :> Solana)
 @@ (AliasOpt :> Optimism)
 @@ (AliasArb :> Arbitrum)

\* dict.get(key, default)
DictGet(d, key, default) == IF key \in DOMAIN d THEN d[key] ELSE default

\* a mutation: whitespace is not trimmed
normalize_chain_name_NoStrip(c) ==
    DictGet(chain_aliases, StrLower(c), StrLower(c))

normalize_chain_name(c) ==
    LET lowered == StrStrip(StrLower(c))
    IN  DictGet(chain_aliases, lowered, lowered)

\* a mutation: the name is looked up in the registry without the alias table
validate_chain_NoAliases(c) == StrStrip(StrLower(c)) \in DOMAIN supported_chains

validate_chain(c) == normalize_chain_name(c) \in DOMAIN supported_chains

Raise(type, msg) == [kind |-> "raise", type |-> type, msg |-> msg]

Return(val) == [kind |-> "return", val |-> val]

Returned(r) == r.kind = "return"

Raised(r) == r.kind = "raise"

get_chain_id(c) ==
    LET normalized_chain == normalize_chain_name(c)
    IN  IF normalized_chain \in DOMAIN supported_chains
        THEN Return(normalized_chain)
        ELSE Raise("ValueError", "Unsupported chain")

(***************************************************************************)
(* The feed's trade records (the JSON the data provider returns)           *)
(*                                                                         *)
(* A decimal field (Amount, Price) holds a number, holds something that    *)
(* is no decimal ("not-a-number", null), or is absent.  A leg or the Dex   *)
(* entry is an object, is absent, or is null.  Symbol and ProtocolName     *)
(* are strings, "" when absent or empty.                                   *)
(***************************************************************************)
Num(n) == [k |-> "num", v |-> n]

Bad == [k |-> "bad"]

Absent == [k |-> "absent"]

Null == [k |-> "null"]

Leg(amount, symbol, price) ==
    [k |-> "obj", Amount |-> amount, Symbol |-> symbol, Price |-> price]

Dex(name) == [k |-> "obj", ProtocolName |-> name]

TradeRecord(buy, sell, dex) == [Buy |-> buy, Sell |-> sell, Dex |-> dex]

\* x.get(key, {}) on an absent key: the empty object, every field absent
EmptyLeg == Leg(Absent, "", Absent)

\* Decimal(str(leg.get(field, 0)))
ParseDecimal(field) ==
    CASE field.k = "num"    -> Return(field.v)
      [] field.k = "absent" -> Return(0)
      [] OTHER              -> Raise("InvalidOperation", "ConversionSyntax")

(***************************************************************************)
(* dex_agent.py: analyze_market, the record loop                           *)
(***************************************************************************)
\* the analysis structure before the loop
InitialAnalysis(trade_list) ==
    [total_trades  |-> Len(trade_list),
     volume_24h    |-> 0,
     active_pairs  |-> {},
     active_dexes  |-> {},
     price_changes |-> <<>>]

\* index of symbol in the price_changes dict (insertion order), 0 if absent
SymbolIndex(price_changes, symbol) ==
    IF \E i \in 1..Len(price_changes) : price_changes[i].symbol = symbol
    THEN CHOOSE i \in 1..Len(price_changes) : price_changes[i].symbol = symbol
    ELSE 0

\* price_changes[symbol]["prices"].append(price), creating the entry first
AppendPrice(price_changes, symbol, price) ==
    LET i == SymbolIndex(price_changes, symbol)
    IN  IF i = 0
        THEN Append(price_changes,
                    [symbol |-> symbol, prices |-> <<price>>,
                     change_24h |-> [num |-> 0, den |-> 1]])
        ELSE [price_changes EXCEPT ![i].prices = Append(@, price)]

\* a mutation: a price enters the series without the test that it is positive
TrackPrice_AnyPrice(analysis, buy) ==
    LET price == ParseDecimal(buy.Price)
    IN  IF Raised(price) THEN analysis
        ELSE IF buy.Symbol # ""
        THEN [analysis EXCEPT
                 !.price_changes = AppendPrice(@, buy.Symbol, price.val)]
        ELSE analysis

\* lines 113-123: track price changes (the inner try)
TrackPrice(analysis, buy) ==
    LET price == ParseDecimal(buy.Price)
    IN  IF Raised(price) THEN analysis
        ELSE IF buy.Symbol # "" /\ price.val > 0
        THEN [analysis EXCEPT
                 !.price_changes = AppendPrice(@, buy.Symbol, price.val)]
        ELSE analysis

\* a mutation: the amount is added once the whole record has been read
ProcessTrade_VolumeLast(analysis, trade) ==
    LET buy  == IF trade.Buy.k = "absent" THEN EmptyLeg ELSE trade.Buy
        sell == IF trade.Sell.k = "absent" THEN EmptyLeg ELSE trade.Sell
        dex  == IF trade.Dex.k = "absent" THEN Dex("") ELSE trade.Dex
    IN  IF buy.k = "null" THEN analysis
        ELSE LET buy_amount == ParseDecimal(buy.Amount)
        IN   IF Raised(buy_amount) THEN analysis
        ELSE IF sell.k = "null" THEN analysis
        ELSE LET a2 == IF buy.Symbol # "" /\ sell.Symbol # ""
                       THEN [analysis EXCEPT !.active_pairs =
                                 @ \cup {<<buy.Symbol, sell.Symbol>>}]
                       ELSE analysis
        IN   IF dex.k = "null" THEN a2
        ELSE LET a3 == IF dex.ProtocolName # ""
                       THEN [a2 EXCEPT !.active_dexes =
                                 @ \cup {dex.ProtocolName}]
                       ELSE a2
        IN   TrackPrice([a3 EXCEPT !.volume_24h = @ + buy_amount.val], buy)

\* a mutation: pairs and venues are recorded without the presence test
ProcessTrade_NoPresenceTest(analysis, trade) ==
    LET buy  == IF trade.Buy.k = "absent" THEN EmptyLeg ELSE trade.Buy
        sell == IF trade.Sell.k = "absent" THEN EmptyLeg ELSE trade.Sell
        dex  == IF trade.Dex.k = "absent" THEN Dex("") ELSE trade.Dex
    IN  IF buy.k = "null" THEN analysis
        ELSE LET buy_amount == ParseDecimal(buy.Amount)
        IN   IF Raised(buy_amount) THEN analysis
        ELSE LET a1 == [analysis EXCEPT !.volume_24h = @ + buy_amount.val]
        IN   IF sell.k = "null" THEN a1
        ELSE LET a2 == [a1 EXCEPT !.active_pairs =
                            @ \cup {<<buy.Symbol, sell.Symbol>>}]
        IN   IF dex.k = "null" THEN a2
        ELSE LET a3 == [a2 EXCEPT !.active_dexes = @ \cup {dex.ProtocolName}]
        IN   TrackPrice(a3, buy)

\* lines 84-127: the body of the record loop for one trade.  An exception
\* leaves the loop body where it is raised; what was accumulated stays.
ProcessTrade(analysis, trade) ==
    LET buy  == IF trade.Buy.k = "absent" THEN EmptyLeg ELSE trade.Buy
        sell == IF trade.Sell.k = "absent" THEN EmptyLeg ELSE trade.Sell
        dex  == IF trade.Dex.k = "absent" THEN Dex("") ELSE trade.Dex
    IN  \* line 98: buy.get on null raises AttributeError
        IF buy.k = "null" THEN analysis
        ELSE LET buy_amount == ParseDecimal(buy.Amount)
        IN   IF Raised(buy_amount) THEN analysis
        ELSE LET a1 == [analysis EXCEPT !.volume_24h = @ + buy_amount.val]
        IN   \* line 103: sell.get on null raises AttributeError
             IF sell.k = "null" THEN a1
        ELSE LET a2 == IF buy.Symbol # "" /\ sell.Symbol # ""
                       THEN [a1 EXCEPT !.active_pairs =
                                 @ \cup {<<buy.Symbol, sell.Symbol>>}]
                       ELSE a1
        IN   \* line 109: dex.get on null raises AttributeError
             IF dex.k = "null" THEN a2
        ELSE LET a3 == IF dex.ProtocolName # ""
                       THEN [a2 EXCEPT !.active_dexes =
                                 @ \cup {dex.ProtocolName}]
                       ELSE a2
        IN   TrackPrice(a3, buy)

RECURSIVE RecordLoopFrom(_, _, _)
RecordLoopFrom(analysis, trade_list, i) ==
    IF i > Len(trade_list) THEN analysis
    ELSE LET next == ProcessTrade(analysis, trade_list[i])
         IN  \* the loop body never assigns total_trades; the test makes the
             \* iteration's value be computed before the next one starts
             IF next.total_trades = analysis.total_trades
             THEN RecordLoopFrom(next, trade_list, i + 1)
             ELSE next

\* a mutation: only the trades processed without a fault are counted
RecordLoop_CountProcessed(trade_list) ==
    LET a == RecordLoopFrom(InitialAnalysis(trade_list), trade_list, 1)
        good == {i \in 1..Len(trade_list) :
                    /\ trade_list[i].Buy.k # "null"
                    /\ trade_list[i].Sell.k # "null"
                    /\ trade_list[i].Dex.k # "null"
                    /\ (trade_list[i].Buy.k = "obj" =>
                          /\ Returned(ParseDecimal(trade_list[i].Buy.Amount))
                          /\ Returned(ParseDecimal(trade_list[i].Buy.Price)))}
    IN  [a EXCEPT !.total_trades = Cardinality(good)]

\* lines 74-127: the analysis after the record loop
RecordLoop(trade_list) ==
    RecordLoopFrom(InitialAnalysis(trade_list), trade_list, 1)

\* a mutation: the change is taken between the last two prices
PriceChange_LastTwo(entry) ==
    LET prices == entry.prices
        previous_price == prices[IF Len(prices) >= 2 THEN Len(prices) - 1 ELSE 1]
        last_price == prices[Len(prices)]
    IN  [symbol |-> entry.symbol,
         change_24h |->
            IF Len(prices) >= 2 /\ previous_price # 0
            THEN [num |-> (last_price - previous_price) * 100, den |-> previous_price]
            ELSE [num |-> 0, den |-> 1]]

\* lines 142-156: the price change of one symbol; prices is popped
PriceChange(entry) ==
    LET prices == entry.prices
        first_price == prices[1]
        last_price == prices[Len(prices)]
    IN  [symbol |-> entry.symbol,
         change_24h |->
            IF Len(prices) >= 2 /\ first_price # 0
            THEN [num |-> (last_price - first_price) * 100, den |-> first_price]
            ELSE [num |-> 0, den |-> 1]]

\* a mutation: a symbol with fewer than 2 prices is left out of the snapshot
Analyze_DropsSingles(trade_list) ==
    LET a == RecordLoop(trade_list)
        kept == SelectSeq(a.price_changes, LAMBDA e : Len(e.prices) >= 2)
    IN  [a EXCEPT !.price_changes =
            [i \in 1..Len(kept) |-> PriceChange(kept[i])]]

\* lines 74-159: the snapshot analyze_market returns for a trade list
Analyze(trade_list) ==
    LET a == RecordLoop(trade_list)
    IN  [a EXCEPT !.price_changes =
            [i \in 1..Len(a.price_changes) |-> PriceChange(a.price_changes[i])]]

(***************************************************************************)
(* dex_agent.py: suggest_trades, the scoring loop                          *)
(***************************************************************************)
PriceMovementThreshold == 5

VolumeThreshold == 10000

TradeFrequencyThreshold == 50

MarketDepthThreshold == 5

PriceMovementPoints == 20

VolumePoints == 30

TradeFrequencyPoints == 25

MarketDepthPoints == 25

MinConfidence == 60

MaxSuggestions == 5

Abs(n) == IF n < 0 THEN -n ELSE n

\* abs(change) > 5
PriceMoved(change) == Abs(change.num) > PriceMovementThreshold * change.den

\* volume > 10000 (the volume is a count of tenths)
VolumeImpact(a) == a.volume_24h > VolumeThreshold * 10

\* analysis["total_trades"] > 50
TradeFrequency(a) == a.total_trades > TradeFrequencyThreshold

\* len(analysis["active_pairs"]) > 5
MarketDepth(a) == Cardinality(a.active_pairs) > MarketDepthThreshold

\* a mutation: the thresholds are inclusive
Confidence_Inclusive(change, a) ==
      (IF Abs(change.num) >= PriceMovementThreshold * change.den
       THEN PriceMovementPoints ELSE 0)
    + (IF a.volume_24h >= VolumeThreshold * 10 THEN VolumePoints ELSE 0)
    + (IF a.total_trades >= TradeFrequencyThreshold
       THEN TradeFrequencyPoints ELSE 0)
    + (IF Cardinality(a.active_pairs) >= MarketDepthThreshold
       THEN MarketDepthPoints ELSE 0)

\* a mutation: the price movement is worth 10 points
Confidence_MovementTen(change, a) ==
      (IF PriceMoved(change) THEN 10 ELSE 0)
    + (IF VolumeImpact(a) THEN VolumePoints ELSE 0)
    + (IF TradeFrequency(a) THEN TradeFrequencyPoints ELSE 0)
    + (IF MarketDepth(a) THEN MarketDepthPoints ELSE 0)

\* lines 205-214
Confidence(change, a) ==
      (IF PriceMoved(change) THEN PriceMovementPoints ELSE 0)
    + (IF VolumeImpact(a) THEN VolumePoints ELSE 0)
    + (IF TradeFrequency(a) THEN TradeFrequencyPoints ELSE 0)
    + (IF MarketDepth(a) THEN MarketDepthPoints ELSE 0)

\* a mutation: a flat price is a buy
Action_ZeroBuys(change) == IF change.num <= 0 THEN "buy" ELSE "sell"

\* line 218
Action(change) == IF change.num < 0 THEN "buy" ELSE "sell"

\* " | ".join(reasons): the clauses with the separator between them
RECURSIVE Join(_)
Join(reasons) ==
    IF Len(reasons) <= 1 THEN reasons
    ELSE <<Head(reasons), " | ">> \o Join(Tail(reasons))

\* the wording of each clause, short of the figures it quotes
MomentumClause(change) ==
    IF Action(change) = "buy" THEN "Price buying signal" ELSE "Price selling signal"

\* a mutation: every clause is written, fired or not
Reasons_AllSignals(change, a) ==
    Join(<<MomentumClause(change), "High trading volume", "Active trading",
           "Good market depth">>)

\* lines 219-235: one clause per signal that fired, joined into one string
Reasons(change, a) ==
    Join(   (IF PriceMoved(change) THEN <<MomentumClause(change)>> ELSE <<>>)
         \o (IF VolumeImpact(a) THEN <<"High trading volume">> ELSE <<>>)
         \o (IF TradeFrequency(a) THEN <<"Active trading">> ELSE <<>>)
         \o (IF MarketDepth(a) THEN <<"Good market depth">> ELSE <<>>))

\* a mutation: the two tokens change places in the path
format_trade_url_TokensSwapped(c, token_a, token_b) ==
    IF ~validate_chain(c) THEN Raise("ValueError", "Unsupported chain")
    ELSE LET chain_config == supported_chains[get_chain_id(c).val]
         IN  Return(<<"https://dexrabbit.com", "/", chain_config.url_path,
                      "/pair/", token_b, "/", token_a>>)

\* lines 165-177: the f-string, piece by piece
format_trade_url(c, token_a, token_b) ==
    IF ~validate_chain(c) THEN Raise("ValueError", "Unsupported chain")
    ELSE LET chain_config == supported_chains[get_chain_id(c).val]
         IN  Return(<<"https://dexrabbit.com", "/", chain_config.url_path,
                      "/pair/", token_a, "/", token_b>>)

\* lines 49-54: a new dict, chain id -> name, native_token, explorer
get_supported_chains ==
    [chain_id \in DOMAIN supported_chains |->
        [name         |-> supported_chains[chain_id].name,
         native_token |-> supported_chains[chain_id].native_token,
         explorer     |-> supported_chains[chain_id].explorer]]

\* lines 232-241
Suggestion(chain_id, a, entry) ==
    LET change == entry.change_24h
    IN  [token      |-> entry.symbol,
         action     |-> Action(change),
         reason     |-> Reasons(change, a),
         confidence |-> Confidence(change, a),
         \* chain_id validates, so format_trade_url returns
         trade_url  |-> format_trade_url(chain_id, entry.symbol,
                           supported_chains[chain_id].native_token).val,
         signals    |-> [price_momentum  |-> change,
                         volume_impact   |-> VolumeImpact(a),
                         trade_frequency |-> TradeFrequency(a),
                         market_depth    |-> MarketDepth(a)]]

\* the locals of the loop body for every symbol of price_changes
Scored(a) ==
    [i \in 1..Len(a.price_changes) |->
        [symbol     |-> a.price_changes[i].symbol,
         change     |-> a.price_changes[i].change_24h,
         confidence |-> Confidence(a.price_changes[i].change_24h, a)]]

\* a mutation: a suggestion is appended from a confidence of 50 on
Emitted_FromFifty(chain_id, a) ==
    LET all == [i \in 1..Len(a.price_changes) |->
                   Suggestion(chain_id, a, a.price_changes[i])]
    IN  SelectSeq(all, LAMBDA s : s.confidence >= 50)

\* lines 192-246: the suggestions appended, in symbol-iteration order
Emitted(chain_id, a) ==
    LET all == [i \in 1..Len(a.price_changes) |->
                   Suggestion(chain_id, a, a.price_changes[i])]
    IN  SelectSeq(all, LAMBDA s : s.confidence >= MinConfidence)

\* insert x after the last element whose confidence is not lower
RECURSIVE InsertByConfidence(_, _)
InsertByConfidence(sorted, x) ==
    IF sorted = <<>> THEN <<x>>
    ELSE IF Head(sorted).confidence >= x.confidence
         THEN <<Head(sorted)>> \o InsertByConfidence(Tail(sorted), x)
         ELSE <<x>> \o sorted

\* sorted(suggestions, key=confidence, reverse=True): stable, descending
RECURSIVE SortFrom(_, _, _)
SortFrom(sorted, s, i) ==
    IF i > Len(s) THEN sorted
    ELSE SortFrom(InsertByConfidence(sorted, s[i]), s, i + 1)

SortByConfidence(s) == SortFrom(<<>>, s, 1)

\* a mutation: the list is cut before it is sorted
TopSuggestions_CutFirst(s) ==
    SortByConfidence(SubSeq(s, 1, IF Len(s) < MaxSuggestions THEN Len(s) ELSE MaxSuggestions))

\* a mutation: the list is not cut
TopSuggestions_NoCut(s) == SortByConfidence(s)

\* line 249
TopSuggestions(s) ==
    LET sorted == SortByConfidence(s)
    IN  SubSeq(sorted, 1,
               IF Len(sorted) < MaxSuggestions THEN Len(sorted) ELSE MaxSuggestions)

(***************************************************************************)
(* bitquery_service.py: the request built for a chain                      *)
(***************************************************************************)
NsSolana == <<"S","o","l","a","n","a">>

NsTron == <<"T","r","o","n">>

NsTON == <<"T","O","N">>

NsEVM == <<"E","V","M">>

\* lines 60-69
get_chain_query(chain_id) ==
    CASE chain_id = Solana -> [namespace |-> NsSolana, address_field |-> "MintAddress"]
      [] chain_id = Tron   -> [namespace |-> NsTron,   address_field |-> "Address"]
      [] chain_id = Ton    -> [namespace |-> NsTON,    address_field |-> "Address"]
      [] OTHER             -> [namespace |-> NsEVM,    address_field |-> "SmartContract"]

\* a datetime in UTC: the day (day 1 is 2024-01-01), the minute of the day
\* and the seconds and microseconds, which no step of the code changes
DateTime(day, minute, second) == [day |-> day, minute |-> minute, second |-> second]

MinutesPerDay == 1440

\* a mutation: the minutes are taken off within the day of now
TimeAgo_SameDay(t, minutes) ==
    [t EXCEPT !.minute = (t.minute - minutes) % MinutesPerDay]

\* line 79: now - timedelta(minutes=time_window)
TimeAgo(t, minutes) ==
    LET total == t.day * MinutesPerDay + t.minute - minutes
    IN  [t EXCEPT !.day = total \div MinutesPerDay,
                  !.minute = total % MinutesPerDay]

\* datetime.isoformat() of an aware UTC datetime: date, "T", hh:mm:ss and
\* the offset "+00:00"
IsoFormat(t) ==
    [date   |-> t.day,
     hour   |-> t.minute \div 60,
     minute |-> t.minute % 60,
     second |-> t.second,
     offset |-> "+00:00"]

\* a mutation: the network variable is sent for every family
BuildRequest_NetworkAlways(chain_id, t, minutes) ==
    LET q == get_chain_query(chain_id)
    IN  [namespace     |-> q.namespace,
         address_field |-> q.address_field,
         variables     |-> [network |-> StrLower(chain_id),
                            since   |-> IsoFormat(TimeAgo(t, minutes))]]

\* lines 82-116: the query and its variables
BuildRequest(chain_id, t, minutes) ==
    LET q == get_chain_query(chain_id)
        since == IsoFormat(TimeAgo(t, minutes))
    IN  [namespace     |-> q.namespace,
         address_field |-> q.address_field,
         variables     |-> IF q.namespace = NsEVM
                           THEN [network |-> StrLower(chain_id), since |-> since]
                           ELSE [since |-> since]]

\* the body of a 200 response without errors: the trades under the root
\* field the query named
ResponseData(namespace, records) ==
    [namespace |-> namespace, DEXTrades |-> records]

\* data.get("data", {}).get(namespace, {}).get("DEXTrades", [])
ExtractTrades(data, namespace) ==
    IF data.namespace = namespace THEN data.DEXTrades ELSE <<>>

\* dex_agent.py line 68
AnalysisNamespace(chain_id) ==
    IF chain_id \notin {Solana, Tron, Ton} THEN NsEVM
    ELSE StrCapitalize(chain_id)

(***************************************************************************)
(* Inputs: the chain names a caller types                                  *)
(***************************************************************************)
\* longest run of whitespace put before and after a name
MaxTrim == 1

RegisteredNames == DOMAIN SUPPORTED_CHAINS \cup DOMAIN CHAIN_ALIASES

\* names that are neither a chain id nor an alias
UnregisteredNames ==
    { <<"b","i","t","c","o","i","n">>,
      <<>>,
      <<"e"," ","t","h">>,
      <<"e","t","h","s">>,
      <<"s","o">> }

CaseForms(s) == {s, StrUpper(s), StrCapitalize(s)}

Paddings(n) == UNION {[1..k -> {" ", "\t"}] : k \in 0..n}

\* every case form of a name, in every run of whitespace up to MaxTrim
Typed(names) ==
    {l \o f \o t : l \in Paddings(MaxTrim), t \in Paddings(MaxTrim),
                   f \in UNION {CaseForms(b) : b \in names}}

ChainInputs == Typed(RegisteredNames \cup UnregisteredNames)

\* the chain arguments of the calls that reach the data provider
RequestChains ==
    UNION {CaseForms(b) : b \in RegisteredNames}
    \cup {<<" ">> \o AliasEthereum \o <<"\t">>, <<"\t">> \o StrUpper(Ton)}

(***************************************************************************)
(* Inputs: the trade lists the data provider returns                       *)
(***************************************************************************)
\* longest list of hand-picked records spliced into a feed
MaxCore == 2

PadSymbols == <<"T1", "T2", "T3", "T4", "T5", "T6">>

\* the i-th record of a run of well-formed trades: amount 250.0, price 100.0,
\* the six symbols of PadSymbols in turn against USDT
PadRecord(i) ==
    TradeRecord(Leg(Num(2500), PadSymbols[((i - 1) % Len(PadSymbols)) + 1], Num(1000)),
                Leg(Num(2500), "USDT", Num(1000)),
                Dex("UniswapV3"))

Pad(n) == [i \in 1..n |-> PadRecord(i)]

\* run lengths around the thresholds: 5 pairs; volume 10000.0 at 40 trades;
\* 50 trades; volume 15000.0 at 60 trades with one more record
PadSizes == {0, MarketDepthThreshold, 40, TradeFrequencyThreshold, 59}

Good(symbol, price) ==
    TradeRecord(Leg(Num(2500), symbol, Num(price)),
                Leg(Num(2500), "USDT", Num(1000)),
                Dex("UniswapV3"))

\* the records spliced into the feeds suggest_trades is scored on
CoreRecords ==
    { Good("T1", 940),                       \* 6 % under the run's price
      Good("T2", 1050),                      \* exactly 5 % over it
      Good("T6", 1100),                      \* 10 % over it
      Good("ABC", 1000),                     \* a symbol of its own
      Good("ABC", 0),                        \* a price that is not positive
      TradeRecord(Leg(Num(150000), "T3", Num(1000)),   \* amount 15000.0
                  Leg(Num(10), "WETH", Num(1000)), Dex("Curve")),
      TradeRecord(Leg(Bad, "T4", Num(1000)),           \* no decimal amount
                  Leg(Num(10), "WETH", Num(1000)), Dex("Sushi")) }

Cores == UNION {[1..m -> CoreRecords] : m \in 0..MaxCore}

\* core with a run of n well-formed trades spliced in after its k-th record
Splice(core, k, n) ==
    SubSeq(core, 1, k) \o Pad(n) \o SubSeq(core, k + 1, Len(core))

\* the i-th record of a run of small trades: amount 10.0, otherwise as
\* PadRecord(i)
ThinRecord(i) ==
    TradeRecord(Leg(Num(100), PadSymbols[((i - 1) % Len(PadSymbols)) + 1], Num(1000)),
                Leg(Num(100), "USDT", Num(1000)),
                Dex("UniswapV3"))

\* many trades of little volume: 50 small trades, then one hand-picked record
ThinFeeds ==
    {[i \in 1..TradeFrequencyThreshold |-> ThinRecord(i)] \o <<r>> :
        r \in CoreRecords}

RankFeeds ==
    UNION {{Splice(core, k, n) : k \in 0..Len(core), n \in PadSizes} : core \in Cores}
    \cup ThinFeeds

\* longest trade list analyze_market is run on record by record
MaxFeed == 2

\* the well-formed record of the aggregation feeds: 100.5 ABC bought for XYZ
\* on UniswapV3 at price 100.0
WellFormedBuy == Leg(Num(1005), "ABC", Num(1000))

WellFormedSell == Leg(Num(20), "XYZ", Num(5))

WellFormedDex == Dex("UniswapV3")

\* well-formed records, and every record that departs from the first of
\* them in one place
AggregateRecords ==
    { TradeRecord(WellFormedBuy, WellFormedSell, WellFormedDex),
      TradeRecord(Leg(Num(1005), "ABC", Num(1100)), WellFormedSell, WellFormedDex),
      TradeRecord(Leg(Num(30), "DEF", Num(1000)), WellFormedSell, Dex("Sushi")),
      \* the pair of the first record the other way round
      TradeRecord(Leg(Num(20), "XYZ", Num(5)), Leg(Num(1005), "ABC", Num(1000)),
                  WellFormedDex) }
    \cup {TradeRecord(Leg(a, "ABC", Num(1000)), WellFormedSell, WellFormedDex) :
             a \in {Bad, Absent}}
    \cup {TradeRecord(Leg(Num(1005), "ABC", p), WellFormedSell, WellFormedDex) :
             p \in {Bad, Absent, Num(0), Num(-1000)}}
    \cup {TradeRecord(b, WellFormedSell, WellFormedDex) :
             b \in {Null, Absent, Leg(Num(1005), "", Num(1000))}}
    \cup {TradeRecord(WellFormedBuy, l, WellFormedDex) :
             l \in {Null, Absent, Leg(Num(20), "", Num(5))}}
    \cup {TradeRecord(WellFormedBuy, WellFormedSell, d) :
             d \in {Null, Absent, Dex("")}}

AggregateFeeds == UNION {[1..m -> AggregateRecords] : m \in 0..MaxFeed}

\* time_window when the caller gives none (and always from analyze_market)
DefaultTimeWindow == 60

\* 2024-01-01T12:00:00 UTC
Noon == DateTime(1, 720, 0)

\* the clock values of the lookback checks: around midnight, the hour and
\* noon, on two days, with and without seconds
Clocks ==
    {DateTime(day, minute, second) :
        day \in {1, 2}, minute \in {0, 30, 59, 60, 720, 1439}, second \in {0, 30}}

\* the lookbacks of the lookback checks: a minute, around the hour, a day
\* and more than a day
TimeWindows == {1, 59, DefaultTimeWindow, 61, 1440, 1500}

\* the answers of the data provider in the call machine
Responses ==
    {[kind |-> k, records |-> <<>>] :
        k \in {"connection_error", "timeout", "status_not_200", "graphql_errors"}}
    \cup {[kind |-> "ok", records |-> f] :
            f \in {<<>>, <<Good("ABC", 1000)>>,
                   Pad(TradeFrequencyThreshold) \o <<Good("T1", 940)>>}}

(***************************************************************************)
(* The call machine                                                        *)
(***************************************************************************)
RegistryOps == {"normalize_chain_name", "validate_chain", "get_chain_id"}

AsyncOps == {"get_chain_activity", "analyze_market", "suggest_trades"}

\* the methods of DexAgent that return without awaiting
AgentOps == {"get_supported_chains", "format_trade_url"}

\* the token arguments format_trade_url is called with
TokenPairs == {<<"ABC", "XYZ">>, <<"T1", "ETH">>}

NoResponse == [kind |-> "none", records |-> <<>>]

NoResult == [kind |-> "none"]

\* most calls in flight at once on the agent
MaxCalls == 2

CallIds == 1..MaxCalls

\* bitquery_service.py lines 18-23: the fields of the service, set once
NewService ==
    [url     |-> "https://streaming.bitquery.io/graphql",
     headers |-> <<"Content-Type", "Authorization">>]

\* a call that is not running: it has no locals
IdleCall ==
    [pc |-> "idle", op |-> "none", chain |-> <<>>, posted |-> <<>>,
     response |-> NoResponse, analysis |-> InitialAnalysis(<<>>),
     result |-> NoResult]

Init ==
    /\ pc = "idle"
    /\ op = "none"
    /\ chain = <<>>
    /\ time_window = DefaultTimeWindow
    /\ now = Noon
    /\ requests = <<>>
    /\ response = NoResponse
    /\ trades = <<>>
    /\ snapshot = InitialAnalysis(<<>>)
    /\ scored = <<>>
    /\ result = NoResult
    /\ service = NewService
    /\ calls = [k \in CallIds |-> IdleCall]
    /\ supported_chains = SUPPORTED_CHAINS
    /\ chain_aliases = CHAIN_ALIASES

\* config.py: a registry function is called; it returns or raises at once
CallRegistry(o, c) ==
    /\ pc = "idle"
    /\ pc' = "done"
    /\ op' = o
    /\ chain' = c
    /\ result' = CASE o = "normalize_chain_name" -> Return(normalize_chain_name(c))
                   [] o = "validate_chain"       -> Return(validate_chain(c))
                   [] OTHER                      -> get_chain_id(c)
    /\ UNCHANGED <<time_window, now, requests, response, trades, snapshot, scored>>
    /\ UNCHANGED <<service, calls, supported_chains, chain_aliases>>

\* a mutation: a name that resolved is remembered as an alias
CallAgent_RemembersAlias(o, c, token_a, token_b) ==
    /\ pc = "idle"
    /\ pc' = "done"
    /\ op' = o
    /\ chain' = IF o = "format_trade_url" THEN c ELSE <<>>
    /\ result' = IF o = "get_supported_chains" THEN Return(get_supported_chains)
                 ELSE format_trade_url(c, token_a, token_b)
    /\ chain_aliases' =
          IF o = "format_trade_url" /\ validate_chain(c)
          THEN (c :> get_chain_id(c).val) @@ chain_aliases
          ELSE chain_aliases
    /\ UNCHANGED <<time_window, now, requests, response, trades, snapshot, scored>>
    /\ UNCHANGED <<service, calls, supported_chains>>

\* dex_agent.py: get_supported_chains (lines 49-54) or format_trade_url
\* (lines 165-177) is called; it returns or raises at once
CallAgent(o, c, token_a, token_b) ==
    /\ pc = "idle"
    /\ pc' = "done"
    /\ op' = o
    /\ chain' = IF o = "format_trade_url" THEN c ELSE <<>>
    /\ result' = IF o = "get_supported_chains" THEN Return(get_supported_chains)
                 ELSE format_trade_url(c, token_a, token_b)
    /\ UNCHANGED <<time_window, now, requests, response, trades, snapshot, scored>>
    /\ UNCHANGED <<service, calls, supported_chains, chain_aliases>>

\* a mutation: the chain is validated after the request went out
Reject_LateValidation(o, c) ==
    /\ pc = "idle"
    /\ IF o = "get_chain_activity" THEN Raised(get_chain_id(c)) ELSE ~validate_chain(c)
    /\ pc' = "done"
    /\ op' = o
    /\ chain' = c
    /\ requests' = Append(requests,
                          BuildRequest(normalize_chain_name(c), now, time_window))
    /\ result' = Raise("ValueError", "Unsupported chain")
    /\ UNCHANGED <<time_window, now, response, trades, snapshot, scored>>
    /\ UNCHANGED <<service, calls, supported_chains, chain_aliases>>

\* analyze_market / suggest_trades (validate_chain fails, lines 61-62 and
\* 184-185) or get_chain_activity (get_chain_id raises, line 82): the
\* exception passes the except clauses, which log and re-raise
Reject(o, c) ==
    /\ pc = "idle"
    /\ IF o = "get_chain_activity" THEN Raised(get_chain_id(c)) ELSE ~validate_chain(c)
    /\ pc' = "done"
    /\ op' = o
    /\ chain' = c
    /\ result' = Raise("ValueError", "Unsupported chain")
    /\ UNCHANGED <<time_window, now, requests, response, trades, snapshot, scored>>
    /\ UNCHANGED <<service, calls, supported_chains, chain_aliases>>

\* the call runs up to session.post (bitquery_service.py line 124); t is
\* what datetime.now(timezone.utc) returns at line 78.  analyze_market
\* calls get_chain_activity without a time_window.
Issue(o, c, t, minutes) ==
    /\ pc = "idle"
    /\ IF o = "get_chain_activity" THEN TRUE ELSE validate_chain(c)
    /\ Returned(get_chain_id(c))
    /\ o # "get_chain_activity" => minutes = DefaultTimeWindow
    /\ pc' = "awaitPost"
    /\ op' = o
    /\ chain' = c
    /\ time_window' = minutes
    /\ now' = t
    /\ requests' = Append(requests, BuildRequest(get_chain_id(c).val, t, minutes))
    /\ UNCHANGED <<response, trades, snapshot, scored, result>>
    /\ UNCHANGED <<service, calls, supported_chains, chain_aliases>>

\* the classes an exception of a type is an instance of (what an except
\* clause naming the class catches): aiohttp's connection errors derive
\* from ClientError, which the code raises itself for a status other than 200
Classes(type) ==
    CASE type = "ClientConnectorError" ->
             {"ClientConnectorError", "ClientOSError", "ClientConnectionError",
              "ClientError", "OSError", "Exception"}
      [] type = "ClientError"  -> {"ClientError", "Exception"}
      [] type = "TimeoutError" -> {"TimeoutError", "OSError", "Exception"}
      [] type = "ValueError"   -> {"ValueError", "Exception"}
      [] OTHER                 -> {type, "Exception"}

\* bitquery_service.py lines 129-159: what get_chain_activity makes of the answer
Fetched(r, request) ==
    CASE r.kind = "connection_error" -> Raise("ClientConnectorError", "connection")
      [] r.kind = "timeout"          -> Raise("TimeoutError", "timeout")
      [] r.kind = "status_not_200"   -> Raise("ClientError", "BitQuery API returned status")
      [] r.kind = "graphql_errors"   -> Raise("ValueError", "GraphQL query failed")
      [] OTHER -> Return(ResponseData(request.namespace, r.records))

\* a mutation: a failed fetch is answered with an empty result
Reply_SwallowFailure(r) ==
    /\ pc = "awaitPost"
    /\ pc' = "done"
    /\ response' = r
    /\ LET data == Fetched(r, requests[Len(requests)])
           chain_id == get_chain_id(chain).val
           t == IF Raised(data) THEN <<>>
                ELSE ExtractTrades(data.val, AnalysisNamespace(chain_id))
           a == Analyze(t)
       IN  /\ trades' = t
           /\ snapshot' = a
           /\ scored' = IF op = "suggest_trades" THEN Scored(a) ELSE scored
           /\ result' = CASE op = "get_chain_activity" ->
                               IF Raised(data)
                               THEN Return(ResponseData(requests[Len(requests)].namespace, <<>>))
                               ELSE data
                          [] op = "analyze_market" -> Return(a)
                          [] OTHER -> Return(TopSuggestions(Emitted(chain_id, a)))
    /\ UNCHANGED <<op, chain, time_window, now, requests, service, calls>>
    /\ UNCHANGED tables

\* a mutation: a failed fetch is tried once more before the failure is raised
Reply_Retry(r) ==
    /\ pc = "awaitPost"
    /\ pc' = "done"
    /\ response' = r
    /\ LET data == Fetched(r, requests[Len(requests)])
           chain_id == get_chain_id(chain).val
       IN  IF Raised(data)
           THEN /\ result' = data
                /\ requests' = Append(requests, requests[Len(requests)])
                /\ UNCHANGED <<trades, snapshot, scored>>
           ELSE /\ requests' = requests
                /\ IF op = "get_chain_activity"
                   THEN /\ result' = data
                        /\ UNCHANGED <<trades, snapshot, scored>>
                   ELSE LET t == ExtractTrades(data.val, AnalysisNamespace(chain_id))
                            a == Analyze(t)
                        IN  /\ trades' = t
                            /\ snapshot' = a
                            /\ scored' = IF op = "suggest_trades" THEN Scored(a) ELSE scored
                            /\ result' = IF op = "analyze_market" THEN Return(a)
                                          ELSE Return(TopSuggestions(Emitted(chain_id, a)))
    /\ UNCHANGED <<op, chain, time_window, now, service, calls>>
    /\ UNCHANGED tables

\* the answer arrives and the call runs to its end
Reply(r) ==
    /\ pc = "awaitPost"
    /\ pc' = "done"
    /\ response' = r
    /\ LET data == Fetched(r, requests[Len(requests)])
           chain_id == get_chain_id(chain).val
       IN  IF Raised(data) \/ op = "get_chain_activity"
           THEN /\ result' = data
                /\ UNCHANGED <<trades, snapshot, scored>>
           ELSE LET t == ExtractTrades(data.val, AnalysisNamespace(chain_id))
                    a == Analyze(t)
                IN  /\ trades' = t
                    /\ snapshot' = a
                    /\ IF op = "analyze_market"
                       THEN /\ result' = Return(a)
                            /\ UNCHANGED scored
                       ELSE /\ scored' = Scored(a)
                            /\ result' = Return(TopSuggestions(Emitted(chain_id, a)))
    /\ UNCHANGED <<op, chain, time_window, now, requests, service, calls>>
    /\ UNCHANGED tables

\* the caller takes the result; nothing of the call is kept
Finish ==
    /\ pc = "done"
    /\ pc' = "idle"
    /\ op' = "none"
    /\ chain' = <<>>
    /\ time_window' = DefaultTimeWindow
    /\ now' = Noon
    /\ requests' = <<>>
    /\ response' = NoResponse
    /\ trades' = <<>>
    /\ snapshot' = InitialAnalysis(<<>>)
    /\ scored' = <<>>
    /\ result' = NoResult
    /\ UNCHANGED <<service, calls, supported_chains, chain_aliases>>

InvokeRegistry == \E o \in RegistryOps, c \in ChainInputs : CallRegistry(o, c)

InvokeAgent ==
    \E o \in AgentOps, c \in ChainInputs, pair \in TokenPairs :
        CallAgent(o, c, pair[1], pair[2])

InvokeRejected == \E o \in AsyncOps, c \in ChainInputs : Reject(o, c)

InvokeRequest ==
    \E o \in AsyncOps, c \in RequestChains \cup Typed(UnregisteredNames) :
        Issue(o, c, Noon, DefaultTimeWindow)

Respond == \E r \in Responses : Reply(r)

Next ==
    \/ InvokeRegistry
    \/ InvokeAgent
    \/ InvokeRejected
    \/ InvokeRequest
    \/ Respond
    \/ Finish

Spec == Init /\ [][Next]_vars

(***************************************************************************)
(* suggest_trades over the feeds of RankFeeds                              *)
(***************************************************************************)
RankInvoke == Issue("suggest_trades", Eth, Noon, DefaultTimeWindow)

RankRespond == \E f \in RankFeeds : Reply([kind |-> "ok", records |-> f])

NextRank == RankInvoke \/ RankRespond \/ Finish

SpecRank == Init /\ [][NextRank]_vars

(***************************************************************************)
(* analyze_market over the feeds of AggregateFeeds                         *)
(***************************************************************************)
AggregateInvoke == Issue("analyze_market", Eth, Noon, DefaultTimeWindow)

AggregateRespond == \E f \in AggregateFeeds : Reply([kind |-> "ok", records |-> f])

NextAggregate == AggregateInvoke \/ AggregateRespond \/ Finish

SpecAggregate == Init /\ [][NextAggregate]_vars

(***************************************************************************)
(* Calls interleaved at their await points                                 *)
(*                                                                         *)
(* analyze_market awaits once, at line 65; get_chain_activity awaits at    *)
(* session.post and at the reading of the response (lines 124-134).        *)
(* Everything after the response is read runs without an await.            *)
(***************************************************************************)
ConcurrentOps == {"analyze_market", "suggest_trades"}

ConcurrentChains == {Eth, Solana}

ConcurrentResponses ==
    {[kind |-> "timeout", records |-> <<>>],
     [kind |-> "ok", records |-> <<>>],
     [kind |-> "ok", records |-> <<Good("ABC", 1000)>>],
     [kind |-> "ok", records |-> <<Good("ABC", 1000), Good("T1", 940)>>]}

\* call k starts and runs up to session.post: it reads the service's url
\* and headers and posts its request
Start(k, o, c) ==
    /\ calls[k].pc = "idle"
    /\ validate_chain(c)
    /\ calls' = [calls EXCEPT ![k] =
                    [IdleCall EXCEPT
                        !.pc = "awaitPost",
                        !.op = o,
                        !.chain = c,
                        !.posted = <<[url     |-> service.url,
                                      headers |-> service.headers,
                                      json    |-> BuildRequest(get_chain_id(c).val, Noon,
                                                               DefaultTimeWindow)]>>]]
    /\ UNCHANGED <<pc, op, chain, time_window, now, requests, response, trades,
                   snapshot, scored, result, service>>
    /\ UNCHANGED tables

\* a mutation: the analysis structure is kept on the service and reused
Answer_KeepsAnalysis(k, r) ==
    /\ calls[k].pc = "awaitPost"
    /\ LET data == Fetched(r, calls[k].posted[1].json)
           chain_id == get_chain_id(calls[k].chain).val
       IN  IF Raised(data)
           THEN /\ calls' = [calls EXCEPT ![k].pc = "done", ![k].response = r,
                                          ![k].result = data]
                /\ UNCHANGED service
           ELSE LET trade_list == ExtractTrades(data.val, AnalysisNamespace(chain_id))
                    kept == IF "analysis" \in DOMAIN service
                            THEN service.analysis
                            ELSE InitialAnalysis(trade_list)
                    looped == RecordLoopFrom(
                                  [kept EXCEPT !.total_trades = Len(trade_list)],
                                  trade_list, 1)
                    analysis ==
                        [looped EXCEPT !.price_changes =
                            [i \in 1..Len(looped.price_changes) |->
                                PriceChange(looped.price_changes[i])]]
                IN  /\ calls' = [calls EXCEPT
                        ![k].pc = "done",
                        ![k].response = r,
                        ![k].analysis = analysis,
                        ![k].result =
                            IF calls[k].op = "analyze_market"
                            THEN Return(analysis)
                            ELSE Return(TopSuggestions(Emitted(chain_id, analysis)))]
                    /\ service' = [url |-> service.url, headers |-> service.headers,
                                   analysis |-> looped]
    /\ UNCHANGED <<pc, op, chain, time_window, now, requests, response, trades,
                   snapshot, scored, result>>
    /\ UNCHANGED tables

\* the answer to call k's request arrives and the call runs to its end on
\* its own locals: data, trades and analysis (dex_agent.py lines 65-159),
\* suggestions (lines 189-256)
Answer(k, r) ==
    /\ calls[k].pc = "awaitPost"
    /\ LET data == Fetched(r, calls[k].posted[1].json)
           chain_id == get_chain_id(calls[k].chain).val
       IN  IF Raised(data)
           THEN calls' = [calls EXCEPT ![k].pc = "done", ![k].response = r,
                                       ![k].result = data]
           ELSE LET trade_list == ExtractTrades(data.val, AnalysisNamespace(chain_id))
                    looped == RecordLoopFrom(InitialAnalysis(trade_list), trade_list, 1)
                    analysis ==
                        [looped EXCEPT !.price_changes =
                            [i \in 1..Len(looped.price_changes) |->
                                PriceChange(looped.price_changes[i])]]
                IN  calls' = [calls EXCEPT
                        ![k].pc = "done",
                        ![k].response = r,
                        ![k].analysis = analysis,
                        ![k].result =
                            IF calls[k].op = "analyze_market"
                            THEN Return(analysis)
                            ELSE Return(TopSuggestions(Emitted(chain_id, analysis)))]
    /\ UNCHANGED <<pc, op, chain, time_window, now, requests, response, trades,
                   snapshot, scored, result, service>>
    /\ UNCHANGED tables

\* call k's result goes to its caller and its locals are dropped
Complete(k) ==
    /\ calls[k].pc = "done"
    /\ calls' = [calls EXCEPT ![k] = IdleCall]
    /\ UNCHANGED <<pc, op, chain, time_window, now, requests, response, trades,
                   snapshot, scored, result, service>>
    /\ UNCHANGED tables

ConcurrentStart ==
    \E k \in CallIds, o \in ConcurrentOps, c \in ConcurrentChains : Start(k, o, c)

ConcurrentAnswer == \E k \in CallIds, r \in ConcurrentResponses : Answer(k, r)

ConcurrentComplete == \E k \in CallIds : Complete(k)

NextConcurrent == ConcurrentStart \/ ConcurrentAnswer \/ ConcurrentComplete

SpecConcurrent == Init /\ [][NextConcurrent]_vars

(***************************************************************************)
(* get_chain_activity over the clock values and lookbacks                  *)
(***************************************************************************)
\* a chain of each family, by id and by alias
WindowChains == {Eth, Solana, Ton, AliasPolygon}

WindowInvoke ==
    \E c \in WindowChains, t \in Clocks, minutes \in TimeWindows :
        Issue("get_chain_activity", c, t, minutes)

WindowInvokeDefault ==
    \E o \in {"analyze_market", "suggest_trades"}, c \in WindowChains, t \in Clocks :
        Issue(o, c, t, DefaultTimeWindow)

WindowRespond ==
    \E r \in {[kind |-> "ok", records |-> <<>>],
               [kind |-> "timeout", records |-> <<>>]} : Reply(r)

NextWindow == WindowInvoke \/ WindowInvokeDefault \/ WindowRespond \/ Finish

SpecWindow == Init /\ [][NextWindow]_vars

(***************************************************************************)
(* Properties: chain resolution and the calls' use of the data provider    *)
(***************************************************************************)
\* what each registered name stands for, as the registry is documented
Resolution ==
    { <<Solana, Solana>>, <<Eth, Eth>>, <<Tron, Tron>>, <<Ton, Ton>>,
      <<Base, Base>>, <<Matic, Matic>>, <<Bsc, Bsc>>, <<Opbnb, Opbnb>>,
      <<Optimism, Optimism>>, <<Arbitrum, Arbitrum>>,
      <<AliasEthereum, Eth>>, <<AliasEther, Eth>>,
      <<AliasBinance, Bsc>>, <<AliasBinanceSmartChain, Bsc>>,
      <<AliasPolygon, Matic>>, <<AliasSol, Solana>>,
      <<AliasOpt, Optimism>>, <<AliasArb, Arbitrum>> }

\* a and b are the same string up to the case of their letters
SameLetters(a, b) ==
    /\ Len(a) = Len(b)
    /\ \A i \in 1..Len(a) : a[i] = b[i] \/ UpperChar(a[i]) = UpperChar(b[i])

\* c is name in some letter case between two runs of whitespace
TypedAs(c, name) ==
    \E l \in 0..Len(c) : \E t \in 0..(Len(c) - l) :
        /\ \A i \in 1..l : c[i] \in Whitespace
        /\ \A i \in (Len(c) - t + 1)..Len(c) : c[i] \in Whitespace
        /\ SameLetters(SubSeq(c, l + 1, Len(c) - t), name)

Resolvable(c) == \E p \in Resolution : TypedAs(c, p[1])

\* C5: get_chain_id returns the canonical id of every chain id and alias,
\* typed in any letter case between any whitespace, and raises the
\* unsupported-chain error for every other string; the alias table is
\* applied by the normalisation, before any chain id is looked up.
C5_ChainResolution ==
    /\ (pc = "done" /\ op = "get_chain_id") =>
          /\ \A p \in Resolution :
                TypedAs(chain, p[1]) => result = Return(p[2])
          /\ ~Resolvable(chain) =>
                result = Raise("ValueError", "Unsupported chain")
    /\ (pc = "done" /\ op = "normalize_chain_name") =>
          \A p \in Resolution :
              TypedAs(chain, p[1]) => result = Return(p[2])

C5_Witness ==
    /\ pc = "done"
    /\ op = "get_chain_id"
    /\ chain = <<" ">> \o StrUpper(AliasBinanceSmartChain) \o <<"\t">>
    /\ result = Return(Bsc)

\* C6: a call of analyze_market, suggest_trades or get_chain_activity whose
\* chain does not resolve never has a request out, and ends with the
\* unsupported-chain error.
C6_RejectedBeforeRequest ==
    (op \in AsyncOps /\ ~Resolvable(chain)) =>
        /\ requests = <<>>
        /\ pc # "awaitPost"
        /\ pc = "done" => result = Raise("ValueError", "Unsupported chain")

C6_Witness ==
    /\ pc = "done"
    /\ op = "suggest_trades"
    /\ chain = <<"\t", "B", "i", "t", "c", "o", "i", "n">>
    /\ requests = <<>>
    /\ Raised(result)

FailureKinds == {"connection_error", "timeout", "status_not_200", "graphql_errors"}

\* C7: when the feed call fails, analyze_market and suggest_trades end with
\* that failure raised: no snapshot and no suggestion list is returned.
C7_FeedFailurePropagates ==
    (pc = "done" /\ op \in {"analyze_market", "suggest_trades"}
       /\ response.kind \in FailureKinds) =>
        /\ Raised(result)
        /\ response.kind = "connection_error" => "ClientError" \in Classes(result.type)
        /\ response.kind = "timeout" => result.type = "TimeoutError"
        /\ response.kind = "status_not_200" =>
              result = Raise("ClientError", "BitQuery API returned status")
        /\ response.kind = "graphql_errors" =>
              result = Raise("ValueError", "GraphQL query failed")
        /\ snapshot = InitialAnalysis(<<>>)
        /\ scored = <<>>

C7_Witness ==
    /\ pc = "done"
    /\ op = "suggest_trades"
    /\ response.kind = "graphql_errors"
    /\ Raised(result)

\* C8: a call with a resolvable chain has exactly one request out from
\* session.post on, whether the fetch succeeds or fails.
C8_OneRequestPerCall ==
    /\ Len(requests) <= 1
    /\ (op \in AsyncOps /\ Resolvable(chain) /\ pc \in {"awaitPost", "done"}) =>
          Len(requests) = 1

C8_Witness ==
    /\ pc = "done"
    /\ op = "analyze_market"
    /\ response.kind = "status_not_200"
    /\ Len(requests) = 1

(***************************************************************************)
(* Properties: the suggestions of suggest_trades                           *)
(***************************************************************************)
\* the call returned its list of suggestions
Suggested == pc = "done" /\ op = "suggest_trades" /\ Returned(result)

\* position of a symbol in the symbol-iteration order of the scoring loop
Position(symbol) == CHOOSE i \in 1..Len(scored) : scored[i].symbol = symbol

\* C1: the confidence of every scored symbol is 20 for a price change beyond
\* 5 %, plus 30 for a volume over 10000, plus 25 for more than 50 trades,
\* plus 25 for more than 5 pairs, every comparison strict; a returned
\* suggestion carries the confidence its symbol was scored with.
C1_ConfidenceIsSumOfPoints ==
    Suggested =>
        /\ \A i \in 1..Len(scored) :
              scored[i].confidence =
                  (IF Abs(scored[i].change.num) > 5 * scored[i].change.den
                   THEN 20 ELSE 0)
                + (IF snapshot.volume_24h > 100000 THEN 30 ELSE 0)
                + (IF snapshot.total_trades > 50 THEN 25 ELSE 0)
                + (IF Cardinality(snapshot.active_pairs) > 5 THEN 25 ELSE 0)
        /\ \A j \in 1..Len(result.val) :
              \E i \in 1..Len(scored) :
                  /\ scored[i].symbol = result.val[j].token
                  /\ scored[i].confidence = result.val[j].confidence

\* change -6, volume 15000, 60 trades, 6 pairs: confidence 100
C1_Witness ==
    /\ Suggested
    /\ snapshot.volume_24h = 150000
    /\ snapshot.total_trades = 60
    /\ Cardinality(snapshot.active_pairs) = 6
    /\ \E i \in 1..Len(scored) :
          /\ scored[i].change.num = -6 * scored[i].change.den
          /\ scored[i].confidence = 100

\* C2: the returned list has at most 5 entries, each of confidence >= 60.
C2_AtMostFiveAndConfident ==
    Suggested =>
        /\ Len(result.val) <= 5
        /\ \A j \in 1..Len(result.val) : result.val[j].confidence >= 60

\* more than 5 symbols reach the acceptance threshold and 5 are returned
C2_Witness ==
    /\ Suggested
    /\ Len(result.val) = 5
    /\ Cardinality({i \in 1..Len(scored) : scored[i].confidence >= 60}) > 5

\* C3: a returned suggestion is a sell when its symbol's price change is
\* zero or positive and a buy when it is negative; there is no other action.
C3_ActionFollowsSign ==
    Suggested =>
        \A j \in 1..Len(result.val) :
            LET change == scored[Position(result.val[j].token)].change
            IN  /\ result.val[j].action \in {"buy", "sell"}
                /\ change.num >= 0 => result.val[j].action = "sell"
                /\ change.num < 0 => result.val[j].action = "buy"

\* a buy on a fall and a sell on a flat price in one list
C3_Witness ==
    /\ Suggested
    /\ \E j \in 1..Len(result.val) :
          /\ scored[Position(result.val[j].token)].change.num < 0
          /\ result.val[j].action = "buy"
    /\ \E j \in 1..Len(result.val) :
          /\ scored[Position(result.val[j].token)].change.num = 0
          /\ result.val[j].action = "sell"

\* the symbols the scoring loop iterated over
ScoredSymbols == {scored[i].symbol : i \in 1..Len(scored)}

\* rank of a symbol in the symbol-iteration order
IterationRank == [s \in ScoredSymbols |-> Position(s)]

\* rank of a symbol by the first record of the feed that carries it as its
\* buy symbol
FeedRank ==
    [s \in ScoredSymbols |->
        CHOOSE i \in 1..Len(trades) :
            /\ trades[i].Buy.k = "obj"
            /\ trades[i].Buy.Symbol = s
            /\ \A j \in 1..(i - 1) :
                  ~(trades[j].Buy.k = "obj" /\ trades[j].Buy.Symbol = s)]

\* the returned list is the first 5 of the scored symbols of confidence
\* >= 60, ordered by confidence, highest first, and among equals by rank
RankedBy(rank) ==
    LET candidates == {i \in 1..Len(scored) : scored[i].confidence >= 60}
        tokens == {result.val[j].token : j \in 1..Len(result.val)}
        Before(i, k) ==
            \/ scored[i].confidence > scored[k].confidence
            \/ /\ scored[i].confidence = scored[k].confidence
               /\ rank[scored[i].symbol] < rank[scored[k].symbol]
    IN  /\ Len(result.val) =
              IF Cardinality(candidates) < 5 THEN Cardinality(candidates) ELSE 5
        /\ \A j \in 1..Len(result.val) :
              /\ \E i \in candidates : scored[i].symbol = result.val[j].token
              /\ result.val[j].confidence =
                     scored[Position(result.val[j].token)].confidence
        /\ \A j, k \in 1..Len(result.val) :
              j < k => Before(Position(result.val[j].token),
                              Position(result.val[k].token))
        /\ \A i \in candidates :
              scored[i].symbol \notin tokens =>
                  \A j \in 1..Len(result.val) :
                      Before(Position(result.val[j].token), i)

Analyzed == pc = "done" /\ op = "analyze_market" /\ response.kind = "ok"

\* a record with a per-record fault: a leg that is missing or is no object,
\* or a buy amount or buy price that is no decimal
Faulty(trade) ==
    \/ trade.Buy.k # "obj"
    \/ trade.Sell.k # "obj"
    \/ trade.Buy.Amount = Bad
    \/ trade.Buy.Price = Bad

WellFormed(trade) == ~Faulty(trade)

\* C9, as claimed: the aggregation completes with a snapshot, and a faulty
\* record counts in total_trades only: volume, pairs, venues and price
\* series are those of the feed without its faulty records.
C9_FaultyRecordsSkipped ==
    Analyzed =>
        /\ Returned(result)
        /\ result.val.total_trades = Len(response.records)
        /\ LET kept == SelectSeq(response.records, WellFormed)
           IN  /\ result.val.volume_24h = RecordLoop(kept).volume_24h
               /\ result.val.active_pairs = RecordLoop(kept).active_pairs
               /\ result.val.active_dexes = RecordLoop(kept).active_dexes
               /\ RecordLoop(trades).price_changes = RecordLoop(kept).price_changes

\* C10: total_trades is the number of records of the feed, however many of
\* them are malformed; the empty feed gives count 0, volume 0 and no pair
\* and no venue.
C10_TotalTradesCountsRecords ==
    Analyzed =>
        /\ Returned(result)
        /\ result.val.total_trades = Len(response.records)
        /\ response.records = <<>> =>
              /\ result.val.total_trades = 0
              /\ result.val.volume_24h = 0
              /\ result.val.active_pairs = {}
              /\ result.val.active_dexes = {}

\* two records, both malformed, are both counted
C10_Witness ==
    /\ Analyzed
    /\ Len(response.records) = 2
    /\ response.records[1].Buy = Null
    /\ response.records[2].Buy.k = "obj"
    /\ response.records[2].Buy.Amount = Bad
    /\ result.val.total_trades = 2

\* the buy amount of a record when it parses as a decimal, 0 otherwise
ParsedAmount(trade) ==
    IF trade.Buy.k = "obj" /\ trade.Buy.Amount.k = "num"
    THEN trade.Buy.Amount.v
    ELSE 0

RECURSIVE SumOfAmounts(_, _)
SumOfAmounts(records, n) ==
    IF n = 0 THEN 0
    ELSE SumOfAmounts(records, n - 1) + ParsedAmount(records[n])

\* C11: the volume of the snapshot is the sum of the buy amounts that parse
\* as a decimal; a record whose buy amount is missing or is no decimal adds
\* nothing, and the aggregation still returns its snapshot.
C11_VolumeIsSumOfParsedAmounts ==
    Analyzed =>
        /\ Returned(result)
        /\ result.val.volume_24h = SumOfAmounts(response.records, Len(response.records))

\* an amount that is no decimal beside one of 100.5 whose record lacks its
\* sell leg
C11_Witness ==
    /\ Analyzed
    /\ Len(response.records) = 2
    /\ response.records[1].Buy.k = "obj"
    /\ response.records[1].Buy.Amount = Bad
    /\ response.records[2].Sell = Null
    /\ Returned(result)
    /\ result.val.volume_24h = 1005

\* a record with both legs and the venue entry present as objects and a buy
\* amount that parses: the loop body reaches its pair and venue steps
ReachesVenue(trade) ==
    /\ trade.Buy.k = "obj"
    /\ trade.Buy.Amount.k = "num"
    /\ trade.Sell.k = "obj"
    /\ trade.Dex.k = "obj"

\* C12: every pair of the snapshot has a non-empty buy and a non-empty sell
\* symbol and every venue name is non-empty, each carried by a record of
\* the feed; the pairs and venues of records that name them are in the
\* snapshot as one element each, (buy, sell) and (sell, buy) being two
\* pairs; one record of 100.5 ABC for XYZ on UniswapV3 gives volume 100.5,
\* that pair and that venue.
C12_PairsAndVenuesPresentOnce ==
    Analyzed =>
        LET records == response.records
            pairs == result.val.active_pairs
            venues == result.val.active_dexes
        IN  /\ \A p \in pairs :
                  /\ p[1] # ""
                  /\ p[2] # ""
                  /\ \E i \in 1..Len(records) :
                        /\ records[i].Buy.k = "obj"
                        /\ records[i].Sell.k = "obj"
                        /\ p = <<records[i].Buy.Symbol, records[i].Sell.Symbol>>
            /\ \A v \in venues :
                  /\ v # ""
                  /\ \E i \in 1..Len(records) :
                        /\ records[i].Dex.k = "obj"
                        /\ records[i].Dex.ProtocolName = v
            /\ \A i \in 1..Len(records) :
                  ReachesVenue(records[i]) =>
                      /\ (records[i].Buy.Symbol # "" /\ records[i].Sell.Symbol # "") =>
                            <<records[i].Buy.Symbol, records[i].Sell.Symbol>> \in pairs
                      /\ records[i].Dex.ProtocolName # "" =>
                            records[i].Dex.ProtocolName \in venues
            /\ Cardinality(pairs) <= Len(records)
            /\ Cardinality(venues) <= Len(records)
            /\ records = <<TradeRecord(WellFormedBuy, WellFormedSell, WellFormedDex)>> =>
                  /\ result.val.volume_24h = 1005
                  /\ pairs = {<<"ABC", "XYZ">>}
                  /\ venues = {"UniswapV3"}

\* two records carry the same pair on the same venue: one pair, one venue
C12_Witness ==
    /\ Analyzed
    /\ Len(response.records) = 2
    /\ response.records[1] = TradeRecord(WellFormedBuy, WellFormedSell, WellFormedDex)
    /\ response.records[2] =
          TradeRecord(Leg(Num(1005), "ABC", Num(1100)), WellFormedSell, WellFormedDex)
    /\ result.val.active_pairs = {<<"ABC", "XYZ">>}
    /\ result.val.active_dexes = {"UniswapV3"}

\* the record carries symbol as its buy symbol with a valid buy price (a
\* decimal greater than 0)
CarriesValidPrice(trade, symbol) ==
    /\ trade.Buy.k = "obj"
    /\ trade.Buy.Symbol = symbol
    /\ trade.Buy.Price.k = "num"
    /\ trade.Buy.Price.v > 0

\* the valid buy prices the first n records carry for symbol, in feed order
RECURSIVE ValidPrices(_, _, _)
ValidPrices(records, symbol, n) ==
    IF n = 0 THEN <<>>
    ELSE ValidPrices(records, symbol, n - 1)
         \o (IF CarriesValidPrice(records[n], symbol)
             THEN <<records[n].Buy.Price.v>> ELSE <<>>)

\* the price series the record loop built for symbol, empty when it has none
PriceSeries(symbol) ==
    LET price_changes == RecordLoop(trades).price_changes
        i == SymbolIndex(price_changes, symbol)
    IN  IF i = 0 THEN <<>> ELSE price_changes[i].prices

\* the buy symbols of the feed
BuySymbols ==
    {response.records[i].Buy.Symbol :
        i \in {j \in 1..Len(response.records) : response.records[j].Buy.k = "obj"}}

\* C13, as claimed: the price series of every symbol is the sequence of the
\* valid buy prices of all the records that carry the symbol, in feed order.
C13_SeriesHoldsEveryValidPrice ==
    Analyzed =>
        \A s \in BuySymbols \ {""} :
            PriceSeries(s) = ValidPrices(response.records, s, Len(response.records))

(***************************************************************************)
(* Properties: the price changes of the snapshot                           *)
(***************************************************************************)
\* analyze_market, called for itself or by suggest_trades, built its snapshot
SnapshotBuilt ==
    pc = "done" /\ op \in {"analyze_market", "suggest_trades"} /\ Returned(result)

\* C14: the change reported for a symbol with 2 or more prices in its series
\* is (last - first) / first * 100 on the first and the last price of the
\* series, whatever the prices between them; 100 then 110 gives 10.
C14_ChangeFromFirstAndLast ==
    SnapshotBuilt =>
        \A i \in 1..Len(snapshot.price_changes) :
            LET entry == snapshot.price_changes[i]
                series == PriceSeries(entry.symbol)
                first == series[1]
                last == series[Len(series)]
            IN  Len(series) >= 2 =>
                    /\ entry.change_24h.den > 0
                    /\ entry.change_24h.num * first =
                           (last - first) * 100 * entry.change_24h.den
                    /\ (first = 1000 /\ last = 1100) =>
                           entry.change_24h.num = 10 * entry.change_24h.den

\* a series that starts at 100.0 and ends at 110.0 with prices between,
\* beside one that starts at 94.0 and goes on at 100.0
C14_Witness ==
    /\ SnapshotBuilt
    /\ \E i \in 1..Len(snapshot.price_changes) :
          LET series == PriceSeries(snapshot.price_changes[i].symbol)
          IN  /\ Len(series) >= 3
              /\ series[1] = 1000
              /\ series[Len(series)] = 1100
              /\ snapshot.price_changes[i].change_24h.num =
                     10 * snapshot.price_changes[i].change_24h.den
    /\ \E i \in 1..Len(snapshot.price_changes) :
          LET series == PriceSeries(snapshot.price_changes[i].symbol)
          IN  /\ Len(series) >= 3
              /\ series[1] = 940
              /\ series[Len(series) - 1] = 1000
              /\ series[Len(series)] = 1000
              /\ snapshot.price_changes[i].change_24h.num * 940 =
                     6000 * snapshot.price_changes[i].change_24h.den

\* C15, as claimed: a symbol with fewer than 2 prices in its series (a price
\* of 0 never enters it) has change 0 and an insufficient-data flag in its
\* entry of the snapshot, and every other symbol has its change computed.
C15_DegenerateChangeFlagged ==
    Analyzed =>
        /\ Returned(result)
        /\ \A i \in 1..Len(result.val.price_changes) :
              LET entry == result.val.price_changes[i]
                  series == PriceSeries(entry.symbol)
              IN  IF Len(series) < 2
                  THEN /\ entry.change_24h.num = 0
                       /\ "insufficient_data" \in DOMAIN entry
                       /\ entry.insufficient_data
                  ELSE entry.change_24h.num * series[1] =
                           (series[Len(series)] - series[1]) * 100
                               * entry.change_24h.den

(***************************************************************************)
(* Properties: the request sent to the data provider                       *)
(***************************************************************************)
\* a request of the call in flight is out
RequestOut == op \in AsyncOps /\ requests # <<>>

\* C16: the request for solana, tron and ton names that chain's own root
\* field, carries no network variable and asks for MintAddress (solana) or
\* Address (tron, ton); the request for every other chain names the EVM
\* root field, carries the lowercase chain id as network and asks for
\* SmartContract, however the chain was typed.
C16_RequestByFamily ==
    RequestOut =>
        \A p \in Resolution :
            TypedAs(chain, p[1]) =>
                LET request == requests[1]
                    id == p[2]
                IN  CASE id = <<"s","o","l","a","n","a">> ->
                             /\ request.namespace = <<"S","o","l","a","n","a">>
                             /\ request.address_field = "MintAddress"
                             /\ "network" \notin DOMAIN request.variables
                      [] id = <<"t","r","o","n">> ->
                             /\ request.namespace = <<"T","r","o","n">>
                             /\ request.address_field = "Address"
                             /\ "network" \notin DOMAIN request.variables
                      [] id = <<"t","o","n">> ->
                             /\ request.namespace = <<"T","O","N">>
                             /\ request.address_field = "Address"
                             /\ "network" \notin DOMAIN request.variables
                      [] OTHER ->
                             /\ request.namespace = <<"E","V","M">>
                             /\ request.address_field = "SmartContract"
                             /\ "network" \in DOMAIN request.variables
                             /\ request.variables.network = id

\* "TON" after a tab: the TON root field, Address, no network
C16_Witness ==
    /\ pc = "awaitPost"
    /\ op = "analyze_market"
    /\ chain = <<"\t", "T", "O", "N">>
    /\ requests[1].namespace = <<"T","O","N">>
    /\ requests[1].address_field = "Address"
    /\ DOMAIN requests[1].variables = {"since"}

\* minutes since the start of day 0 of a formatted timestamp
IsoInstant(iso) == iso.date * 1440 + iso.hour * 60 + iso.minute

\* C17: the since bound of the request is the clock value the call read
\* minus its lookback, to the minute, with the seconds unchanged and in UTC;
\* it is earlier than the clock value; the lookback is 60 minutes when the
\* caller gives none; noon of 2024-01-01 and 60 minutes give 11:00:00 of
\* that day.  Nothing of this depends on the chain's family.
C17_SinceIsNowMinusLookback ==
    RequestOut =>
        LET since == requests[1].variables.since
        IN  /\ time_window > 0
            /\ op \in {"analyze_market", "suggest_trades"} => time_window = 60
            /\ since.hour \in 0..23
            /\ since.minute \in 0..59
            /\ since.second = now.second
            /\ since.offset = "+00:00"
            /\ IsoInstant(since) = now.day * 1440 + now.minute - time_window
            /\ IsoInstant(since) < now.day * 1440 + now.minute
            /\ (now = [day |-> 1, minute |-> 720, second |-> 0] /\ time_window = 60) =>
                  since = [date |-> 1, hour |-> 11, minute |-> 0, second |-> 0,
                           offset |-> "+00:00"]

\* 00:30:30 of 2024-01-01 and 60 minutes: 23:30:30 of the day before, for a
\* non-EVM chain
C17_Witness ==
    /\ pc = "awaitPost"
    /\ op = "get_chain_activity"
    /\ chain = Solana
    /\ now = [day |-> 1, minute |-> 30, second |-> 30]
    /\ time_window = 60
    /\ requests[1].variables.since =
          [date |-> 0, hour |-> 23, minute |-> 30, second |-> 30, offset |-> "+00:00"]

(***************************************************************************)
(* Properties: the rationale of a suggestion                               *)
(***************************************************************************)
\* the clauses of a rationale: what stands between its separators
ClausesOf(reason) ==
    [n \in 1..((Len(reason) + 1) \div 2) |-> reason[2 * n - 1]]

\* the signal a clause speaks of, in the order momentum, volume, frequency,
\* depth; 0 when it speaks of none
SignalOf(clause) ==
    CASE clause \in {"Price buying signal", "Price selling signal"} -> 1
      [] clause = "High trading volume" -> 2
      [] clause = "Active trading" -> 3
      [] clause = "Good market depth" -> 4
      [] OTHER -> 0

\* the points a signal is worth
PointsOf(signal) ==
    CASE signal = 1 -> 20 [] signal = 2 -> 30 [] signal = 3 -> 25
      [] signal = 4 -> 25 [] OTHER -> 0

RECURSIVE PointsNamed(_, _)
PointsNamed(clauses, n) ==
    IF n = 0 THEN 0
    ELSE PointsNamed(clauses, n - 1) + PointsOf(SignalOf(clauses[n]))

\* C18: the rationale of every returned suggestion is its clauses with
\* " | " between them; each clause speaks of one signal, the signals are in
\* the order momentum, volume, frequency, depth, a signal has a clause
\* exactly when it fired for the symbol, and the points of the signals named
\* add up to the confidence.
C18_RationaleNamesFiredSignals ==
    Suggested =>
        \A j \in 1..Len(result.val) :
            LET reason == result.val[j].reason
                clauses == ClausesOf(reason)
                change == scored[Position(result.val[j].token)].change
                named == {SignalOf(clauses[n]) : n \in 1..Len(clauses)}
            IN  /\ Len(reason) % 2 = 1
                /\ \A n \in 1..Len(reason) : (n % 2 = 0) <=> (reason[n] = " | ")
                /\ 0 \notin named
                /\ \A m, n \in 1..Len(clauses) :
                      m < n => SignalOf(clauses[m]) < SignalOf(clauses[n])
                /\ 1 \in named <=> Abs(change.num) > 5 * change.den
                /\ 2 \in named <=> snapshot.volume_24h > 100000
                /\ 3 \in named <=> snapshot.total_trades > 50
                /\ 4 \in named <=> Cardinality(snapshot.active_pairs) > 5
                /\ PointsNamed(clauses, Len(clauses)) = result.val[j].confidence

\* one suggestion with all four clauses beside one without the momentum
\* clause
C18_Witness ==
    /\ Suggested
    /\ \E j, k \in 1..Len(result.val) :
          /\ ClausesOf(result.val[j].reason) =
                <<"Price buying signal", "High trading volume", "Active trading",
                  "Good market depth">>
          /\ ClausesOf(result.val[k].reason) =
                <<"High trading volume", "Active trading", "Good market depth">>

(***************************************************************************)
(* Properties: the kind of a feed failure                                  *)
(***************************************************************************)
\* what the feed call raises for each failure of the transport
TransportFailures ==
    {Fetched([kind |-> k, records |-> <<>>], requests[1]) :
        k \in {"connection_error", "timeout"}}

\* what a call raises for a chain that does not resolve
UnknownChainFailure == get_chain_id(<<"b","i","t","c","o","i","n">>)

\* C19, as claimed: a non-200 status and a body with errors are raised as a
\* failure of a type by which the caller tells them from every transport
\* failure and from the unknown-chain failure: there is a class that the
\* failure is an instance of and none of those is.
C19_ProtocolFailureIdentified ==
    (pc = "done" /\ op \in AsyncOps
       /\ response.kind \in {"status_not_200", "graphql_errors"}) =>
        /\ Raised(result)
        /\ \E class \in Classes(result.type) :
              /\ \A f \in TransportFailures : class \notin Classes(f.type)
              /\ class \notin Classes(UnknownChainFailure.type)

(***************************************************************************)
(* Properties: calls that run interleaved                                  *)
(***************************************************************************)
\* what a call of o for chain c returns or raises when it runs alone and
\* the data provider answers r
Alone(o, c, r) ==
    LET chain_id == get_chain_id(c).val
        data == Fetched(r, BuildRequest(chain_id, Noon, DefaultTimeWindow))
        a == Analyze(ExtractTrades(data.val, AnalysisNamespace(chain_id)))
    IN  IF Raised(data) THEN data
        ELSE IF o = "analyze_market" THEN Return(a)
        ELSE Return(TopSuggestions(Emitted(chain_id, a)))

\* C20: a call that has ended has the result it would have alone on the
\* answer it got, whatever other calls ran before it or are in flight with
\* it; the state the calls share is what it was at construction; a call
\* that is not running holds nothing.
C20_CallsAreIndependent ==
    /\ service = [url     |-> "https://streaming.bitquery.io/graphql",
                  headers |-> <<"Content-Type", "Authorization">>]
    /\ \A k \in CallIds :
          /\ calls[k].pc = "done" =>
                calls[k].result = Alone(calls[k].op, calls[k].chain, calls[k].response)
          /\ calls[k].pc = "idle" => calls[k] = IdleCall

\* a call for eth ends with its one-record snapshot while a call for
\* solana, started before it and answered with two records, has ended too
C20_Witness ==
    \E j, k \in CallIds :
        /\ j # k
        /\ calls[j].pc = "done"
        /\ calls[j].op = "analyze_market"
        /\ calls[j].chain = Eth
        /\ calls[j].result.kind = "return"
        /\ calls[j].result.val.volume_24h = 2500
        /\ calls[k].pc = "done"
        /\ calls[k].op = "suggest_trades"
        /\ calls[k].chain = Solana
        /\ calls[k].analysis.volume_24h = 5000

(***************************************************************************)
(* Properties: the tables of config.py                                     *)
(***************************************************************************)
\* C21: whatever was called and however it ended, the chain registry and
\* the alias table are the tables config.py was loaded with, and every
\* alias maps to one chain id, a key of the registry.
C21_TablesNeverChange ==
    /\ supported_chains = SUPPORTED_CHAINS
    /\ chain_aliases = CHAIN_ALIASES
    /\ \A alias \in DOMAIN chain_aliases :
          chain_aliases[alias] \in DOMAIN supported_chains
    /\ Cardinality(DOMAIN supported_chains) = 10
    /\ Cardinality(DOMAIN chain_aliases) = 8

\* format_trade_url has raised for a name that is no chain and the alias
\* table is as loaded
C21_Witness ==
    /\ pc = "done"
    /\ op = "format_trade_url"
    /\ chain = <<"e", "t", "h", "s">>
    /\ Raised(result)
    /\ chain_aliases = CHAIN_ALIASES

(***************************************************************************)
(* Properties: the reference URL                                           *)
(***************************************************************************)
\* the URL of a token on a chain of the registry, as it is documented
ReferenceUrl(chain_id, token) ==
    <<"https://dexrabbit.com", "/", SUPPORTED_CHAINS[chain_id].url_path,
      "/pair/", token, "/", SUPPORTED_CHAINS[chain_id].native_token>>

\* C22: the trade_url of every suggestion is the marketplace base URL, "/",
\* the url_path of the chain the caller's name resolves to, "/pair/", the
\* suggested token, "/" and that chain's native token, also when the caller
\* typed an alias; building it sends no request: the call has the one
\* request of its fetch out, and format_trade_url called on its own has none.
C22_ReferenceUrl ==
    /\ Suggested =>
          /\ Len(requests) = 1
          /\ \A p \in Resolution :
                TypedAs(chain, p[1]) =>
                   \A i \in 1..Len(result.val) :
                      result.val[i].trade_url =
                         ReferenceUrl(p[2], result.val[i].token)
    /\ (pc = "done" /\ op = "format_trade_url") =>
          /\ requests = <<>>
          /\ \A p \in Resolution :
                TypedAs(chain, p[1]) =>
                   /\ Returned(result)
                   /\ \E pair \in TokenPairs :
                         result.val =
                            <<"https://dexrabbit.com", "/",
                              SUPPORTED_CHAINS[p[2]].url_path, "/pair/",
                              pair[1], "/", pair[2]>>

\* suggest_trades was called with the alias " ethereum\t" and suggests T1
\* first, with the URL of eth and its native token ETH
C22_Witness ==
    /\ Suggested
    /\ chain = <<" ">> \o AliasEthereum \o <<"\t">>
    /\ Len(result.val) = MaxSuggestions
    /\ result.val[1].token = "T1"
    /\ result.val[1].trade_url =
          <<"https://dexrabbit.com", "/", "eth", "/pair/", "T1", "/", "ETH">>

(***************************************************************************)
(* Properties: the root field of the query and of the analysis             *)
(***************************************************************************)
\* C23: for every supported chain, analyze_market looks the trade list up
\* under the root field get_chain_activity queried and counted under, so
\* total_trades is the number of records the data provider returned.
C23_NamespaceAgrees ==
    (pc = "done" /\ op \in {"analyze_market", "suggest_trades"}
       /\ response.kind = "ok") =>
        /\ AnalysisNamespace(get_chain_id(chain).val) = requests[1].namespace
        /\ trades = response.records
        /\ snapshot.total_trades = Len(response.records)

(***************************************************************************)
(* Properties: the prices of the series                                    *)
(***************************************************************************)
\* the records of the feed that carry a valid buy price for a buy symbol
\* that is not empty
PricedRecords ==
    {i \in 1..Len(response.records) :
        /\ response.records[i].Buy.k = "obj"
        /\ response.records[i].Buy.Symbol # ""
        /\ CarriesValidPrice(response.records[i], response.records[i].Buy.Symbol)}

\* the number of prices in the first n series
RECURSIVE StoredPrices(_, _)
StoredPrices(price_changes, n) ==
    IF n = 0 THEN 0
    ELSE StoredPrices(price_changes, n - 1) + Len(price_changes[n].prices)

\* the derivation of lines 146-149 divides by 0 for the entry
DividesByZero(entry) == Len(entry.prices) >= 2 /\ entry.prices[1] = 0

\* C24: every price of every series the record loop built is greater than
\* 0, no series is kept for the empty symbol, and the series hold no more
\* prices than the feed has records with a valid price and a buy symbol (a
\* record with a price of 0 or less or with an empty buy symbol adds
\* nothing); so no price change is derived with the divisor 0.
C24_StoredPricesPositive ==
    Analyzed =>
        LET price_changes == RecordLoop(trades).price_changes
        IN  /\ \A i \in 1..Len(price_changes) :
                  /\ price_changes[i].symbol # ""
                  /\ price_changes[i].prices # <<>>
                  /\ \A j \in 1..Len(price_changes[i].prices) :
                        price_changes[i].prices[j] > 0
                  /\ ~DividesByZero(price_changes[i])
            /\ StoredPrices(price_changes, Len(price_changes))
                  <= Cardinality(PricedRecords)

\* a record with the price 0 came before one with the price 100.0 for the
\* same symbol: the series holds the second price only
C24_Witness ==
    /\ Analyzed
    /\ Len(response.records) = 2
    /\ response.records[1] =
          TradeRecord(Leg(Num(1005), "ABC", Num(0)), WellFormedSell, WellFormedDex)
    /\ response.records[2] =
          TradeRecord(WellFormedBuy, WellFormedSell, WellFormedDex)
    /\ PriceSeries("ABC") = <<1000>>

(***************************************************************************)
(* Properties: the signals of the whole snapshot                           *)
(***************************************************************************)
\* how many of the volume, trade-frequency and market-depth signals fire on
\* the snapshot
SnapshotSignals ==
      (IF snapshot.volume_24h > 100000 THEN 1 ELSE 0)
    + (IF snapshot.total_trades > 50 THEN 1 ELSE 0)
    + (IF Cardinality(snapshot.active_pairs) > 5 THEN 1 ELSE 0)

\* the symbols with price data whose price change is beyond 5 %
MovedSymbols ==
    {scored[i].symbol :
        i \in {k \in 1..Len(scored) :
                  Abs(scored[k].change.num) > 5 * scored[k].change.den}}

\* the symbols that are candidates by the number of snapshot signals firing
Candidates ==
    CASE SnapshotSignals = 3 -> ScoredSymbols
      [] SnapshotSignals = 2 -> MovedSymbols
      [] OTHER               -> {}

\* C25: every returned suggestion carries the volume, trade-frequency and
\* market-depth signals of the whole snapshot; the suggestions are drawn
\* from all symbols with price data when the three fire, from the symbols
\* with a price change beyond 5 % when exactly two fire, and there is none
\* when fewer than two fire; up to the cut to 5 every candidate is returned.
C25_SnapshotSignalsDecideCandidates ==
    Suggested =>
        /\ \A j \in 1..Len(result.val) :
              /\ result.val[j].signals.volume_impact = (snapshot.volume_24h > 100000)
              /\ result.val[j].signals.trade_frequency = (snapshot.total_trades > 50)
              /\ result.val[j].signals.market_depth =
                     (Cardinality(snapshot.active_pairs) > 5)
              /\ result.val[j].token \in Candidates
        /\ Len(result.val) =
              IF Cardinality(Candidates) < 5 THEN Cardinality(Candidates) ELSE 5
        /\ \A i \in 1..Len(scored) :
              scored[i].confidence >= 60 <=> scored[i].symbol \in Candidates
        /\ SnapshotSignals < 2 => result.val = <<>>

\* exactly two snapshot signals fire: the symbol that moved is suggested and
\* a symbol with price data that did not move is not
C25_Witness ==
    /\ Suggested
    /\ SnapshotSignals = 2
    /\ \E j \in 1..Len(result.val) : result.val[j].token \in MovedSymbols
    /\ ScoredSymbols \ MovedSymbols # {}
    /\ Len(result.val) = Cardinality(MovedSymbols)

\* one snapshot signal fires and a symbol moved: nothing is suggested
C25_WitnessFewerThanTwo ==
    /\ Suggested
    /\ SnapshotSignals = 1
    /\ MovedSymbols # {}
    /\ result.val = <<>>

(***************************************************************************)
(* Properties: the values the confidence takes                             *)
(***************************************************************************)
\* how many of the four signals fire for the i-th scored symbol
SignalsFired(i) ==
    SnapshotSignals
    + (IF Abs(scored[i].change.num) > 5 * scored[i].change.den THEN 1 ELSE 0)

\* C26: every returned suggestion has the confidence 70, 75, 80 or 100; the
\* confidence of every scored symbol, returned or not, is within 0..100 and
\* is never 60, and a symbol that reaches 60 has at least three of the four
\* signals firing; no sum of the points 20, 30, 25 and 25 is 60.
C26_ConfidenceValues ==
    /\ \A m, v, f, d \in {0, 1} :
          LET sum == m * 20 + v * 30 + f * 25 + d * 25
          IN  /\ sum # 60
              /\ sum >= 60 => m + v + f + d >= 3
    /\ Suggested =>
          /\ \A j \in 1..Len(result.val) :
                result.val[j].confidence \in {70, 75, 80, 100}
          /\ \A i \in 1..Len(scored) :
                /\ scored[i].confidence \in 0..100
                /\ scored[i].confidence # 60
                /\ scored[i].confidence >= 60 => SignalsFired(i) >= 3

\* more than 50 trades and more than 5 pairs on a volume under 10000: the
\* symbol that moved is suggested with 70, the others were scored 50
C26_Witness ==
    /\ Suggested
    /\ snapshot.volume_24h <= 100000
    /\ Len(result.val) = 1
    /\ result.val[1].confidence = 70
    /\ \E i \in 1..Len(scored) : scored[i].confidence = 50

(***************************************************************************)
(* Properties: a symbol with one price                                     *)
(***************************************************************************)
\* the tokens of the returned list
ReturnedTokens == {result.val[j].token : j \in 1..Len(result.val)}

\* the symbols of the feed whose price series holds exactly one price
SinglePriceSymbols == {s \in BuySymbols \ {""} : Len(PriceSeries(s)) = 1}

\* C27: a symbol whose price series holds exactly one price is scored, with
\* the price change 0; it reaches the acceptance threshold exactly when the
\* volume, trade-frequency and market-depth signals all fire, then with
\* confidence 80, and is returned (when no more than 5 symbols reach it) as
\* a sell without a momentum clause in its rationale; no symbol is scored
\* or returned twice.
C27_SinglePriceSymbol ==
    Suggested =>
        /\ \A s \in SinglePriceSymbols :
              /\ s \in ScoredSymbols
              /\ LET entry == scored[Position(s)]
                 IN  /\ entry.change.num = 0
                     /\ entry.confidence >= 60 <=> SnapshotSignals = 3
                     /\ entry.confidence >= 60 => entry.confidence = 80
              /\ (/\ SnapshotSignals = 3
                  /\ Cardinality({i \in 1..Len(scored) :
                                     scored[i].confidence >= 60}) <= 5)
                    => s \in ReturnedTokens
              /\ \A j \in 1..Len(result.val) :
                    result.val[j].token = s =>
                       /\ SnapshotSignals = 3
                       /\ result.val[j].action = "sell"
                       /\ result.val[j].confidence = 80
                       /\ result.val[j].signals.price_momentum.num = 0
                       /\ \A n \in 1..Len(ClausesOf(result.val[j].reason)) :
                             SignalOf(ClausesOf(result.val[j].reason)[n]) # 1
        /\ \A i, k \in 1..Len(scored) :
              scored[i].symbol = scored[k].symbol => i = k
        /\ \A j, k \in 1..Len(result.val) :
              result.val[j].token = result.val[k].token => j = k

\* ABC has one price in a feed on which the three snapshot signals fire: it
\* is returned as a sell with confidence 80 and the three other clauses
C27_Witness ==
    /\ Suggested
    /\ PriceSeries("ABC") = <<1000>>
    /\ SnapshotSignals = 3
    /\ \E j \in 1..Len(result.val) :
          /\ result.val[j].token = "ABC"
          /\ result.val[j].action = "sell"
          /\ result.val[j].confidence = 80
          /\ result.val[j].reason =
                <<"High trading volume", " | ", "Active trading", " | ",
                  "Good market depth">>

\* ABC has one price in a feed on which two snapshot signals fire: it is
\* scored 55 and not returned
C27_WitnessNotEmitted ==
    /\ Suggested
    /\ PriceSeries("ABC") = <<1000>>
    /\ SnapshotSignals = 2
    /\ scored[Position("ABC")].confidence = 55
    /\ "ABC" \notin ReturnedTokens

(***************************************************************************)
(* Properties: validation and resolution agree                             *)
(***************************************************************************)
\* C28: validate_chain returns true exactly for the strings get_chain_id
\* returns an id for and false for those it raises on; the id get_chain_id
\* returns is a chain id that get_chain_id returns unchanged, and no chain
\* id is an alias of another chain.
C28_ValidationAgreesWithResolution ==
    /\ (pc = "done" /\ op = "validate_chain") =>
          /\ result \in {Return(TRUE), Return(FALSE)}
          /\ result.val <=> Returned(get_chain_id(chain))
          /\ result.val <=> Resolvable(chain)
    /\ (pc = "done" /\ op = "get_chain_id") =>
          /\ Returned(result) <=> validate_chain(chain)
          /\ Returned(result) =>
                /\ result.val \in DOMAIN SUPPORTED_CHAINS
                /\ get_chain_id(result.val) = result
                /\ validate_chain(result.val)
    /\ \A id \in DOMAIN SUPPORTED_CHAINS :
          id \in DOMAIN CHAIN_ALIASES => CHAIN_ALIASES[id] = id

\* get_chain_id returned matic for "\tPOLYGON", a string validate_chain
\* accepts, and returns matic for matic
C28_Witness ==
    /\ pc = "done"
    /\ op = "get_chain_id"
    /\ chain = <<"\t">> \o StrUpper(AliasPolygon)
    /\ result = Return(Matic)
    /\ validate_chain(chain)
    /\ get_chain_id(Matic) = Return(Matic)

\* validate_chain returned false for " eths": get_chain_id raises on it
C28_WitnessRejected ==
    /\ pc = "done"
    /\ op = "validate_chain"
    /\ chain = <<" ", "e", "t", "h", "s">>
    /\ result = Return(FALSE)
    /\ Raised(get_chain_id(chain))

====
